---------------------------- MODULE Spec2Model ----------------------------
(***************************************************************************)
(* Model of the polyhex packing solver: the coordinating page code         *)
(* (app.js: placement compilation, work partition, aggregation, stop) and  *)
(* the search worker (solver-worker.js: entry loop and backtracking).      *)
(*                                                                         *)
(* Cells, pieces and placements are addressed by the 0-based indices the   *)
(* code uses; an array a of the code is a sequence here and a[i] is        *)
(* written a[i + 1].  A hex is the pair <<q, r>>.                          *)
(***************************************************************************)
EXTENDS Integers, Sequences, FiniteSets, TLC

\* ------------------------------------------------------------------ bounds
MaxW == 2
MaxH == 4
MaxPieces == 2
MaxWorkers == 3
MaxPlacements == 6
MaxProgress == 1
\* the piece list while it is edited
MaxCatalog == 3
\* one worker searching with a longer piece list
SearchMaxPieces == 3
SearchMaxW == 3
SearchMaxH == 4
SearchMaxPlacements == 16
\* a run whose piece list is edited meanwhile
EditMaxH == 2
EditMaxWorkers == 2

\* --------------------------------------------------------- generic helpers
Range(s) == {s[i] : i \in 1..Len(s)}

RECURSIVE SumSeq(_)
SumSeq(s) == IF s = <<>> THEN 0 ELSE s[1] + SumSeq(Tail(s))

RECURSIVE Flatten(_)
Flatten(ss) == IF ss = <<>> THEN <<>> ELSE ss[1] \o Flatten(Tail(ss))

\* Array.prototype.sort is stable: an element is inserted after every element
\* the comparator does not put strictly behind it.  Before(a, b) is cmp(a, b) < 0.
RECURSIVE InsertAsc(_, _, _)
InsertAsc(x, kx, s) ==
  IF s = <<>> THEN <<x>>
  ELSE IF kx < s[1].key THEN <<x>> \o s
  ELSE <<s[1]>> \o InsertAsc(x, kx, Tail(s))

RECURSIVE StableSortAsc(_)
StableSortAsc(s) ==
  IF s = <<>> THEN <<>>
  ELSE LET rest == StableSortAsc(SubSeq(s, 1, Len(s) - 1))
           x == s[Len(s)]
       IN  InsertAsc(x, x.key, rest)

\* ------------------------------------------------------------ hex geometry
\* r - (q - (q & 1)) / 2 : odd-q offset row to axial row
OddQToAxialR(h) == h[2] - ((h[1] - (h[1] % 2)) \div 2)

\* y + (x - (x & 1)) / 2 : axial row back to odd-q offset row
AxialToOddQ(x, y) == <<x, y + ((x - (x % 2)) \div 2)>>

RECURSIVE RotateCube(_, _, _, _)
RotateCube(x, y, z, n) ==
  IF n = 0 THEN <<x, y, z>> ELSE RotateCube(-z, -x, -y, n - 1)

rotateHex(hex, times) ==
  LET t == ((times % 6) + 6) % 6
  IN  IF t = 0 THEN hex
      ELSE LET ar == OddQToAxialR(hex)
               c == RotateCube(hex[1], ar, -hex[1] - ar, t)
           IN  AxialToOddQ(c[1], c[2])

addHex(a, b) == AxialToOddQ(a[1] + b[1], OddQToAxialR(a) + OddQToAxialR(b))

\* the library's plain (axial) add, used by neighbor()
add(a, b) == <<a[1] + b[1], a[2] + b[2]>>

HEX_DIRECTIONS == << <<1, 0>>, <<1, -1>>, <<0, -1>>, <<-1, 0>>, <<-1, 1>>, <<0, 1>> >>

\* ------------------------------------------------------------------- board
\* generateRect(w, h): q outer, r inner, so cell (q, r) has index q * h + r
BoardHas(w, h, hex) == hex[1] \in 0..(w - 1) /\ hex[2] \in 0..(h - 1)

CellIndexOf(h, hex) == hex[1] * h + hex[2]

BoardCells(w, h) == [i \in 1..(w * h) |-> <<(i - 1) \div h, (i - 1) % h>>]

GridNeighbors(w, h, hex) ==
  LET cand == [i \in 1..6 |-> add(hex, HEX_DIRECTIONS[i])]
      on == SelectSeq(cand, LAMBDA n : BoardHas(w, h, n))
  IN  [i \in 1..Len(on) |-> CellIndexOf(h, on[i])]

Neighbors(w, h) == [i \in 1..(w * h) |-> GridNeighbors(w, h, BoardCells(w, h)[i])]


\* ------------------------------------------------------- piece collection
\* Offsets as onAddPiece stores them for editor selections: one cell; two
\* stacked cells; two cells of one column with a gap; three stacked cells;
\* two cells side by side in neighbouring columns.
ShapeLib ==
  { << <<0, 0>> >>,
    << <<0, -1>>, <<0, 0>> >>,
    << <<0, -1>>, <<0, 1>> >>,
    << <<0, -1>>, <<0, 0>>, <<0, 1>> >>,
    << <<-1, 0>>, <<0, 0>> >> }

\* pieces added one after the other get the ids 1, 2, ...
Catalogs ==
  UNION { { [i \in 1..n |-> [id |-> i, cells |-> f[i]]] : f \in [1..n -> ShapeLib] }
          : n \in 0..MaxPieces }

\* ---------------------------------------------------- placement compiler
RotLimit(allow) == IF allow THEN 6 ELSE 1

TargetHexes(piece, rot, anchor) ==
  [j \in 1..Len(piece.cells) |-> addHex(anchor, rotateHex(piece.cells[j], rot))]

\* piecePlacements[pi]: rotations outer, board cells (anchors) inner; a
\* placement is kept when every target is on the board
PiecePlacementList(ps, w, h, allow, pi) ==
  LET n == w * h
      piece == ps[pi + 1]
      cand == [k \in 1..(RotLimit(allow) * n) |->
                 LET rot == (k - 1) \div n
                     a == (k - 1) % n
                     hx == TargetHexes(piece, rot, BoardCells(w, h)[a + 1])
                 IN  [pieceIdx |-> pi, pieceId |-> piece.id, anchorIdx |-> a,
                      rot |-> rot, hexes |-> hx]]
      ok == SelectSeq(cand, LAMBDA c : \A j \in 1..Len(c.hexes) : BoardHas(w, h, c.hexes[j]))
  IN  [k \in 1..Len(ok) |->
         [pieceIdx |-> ok[k].pieceIdx, pieceId |-> ok[k].pieceId,
          anchorIdx |-> ok[k].anchorIdx, rot |-> ok[k].rot,
          targets |-> [j \in 1..Len(ok[k].hexes) |-> CellIndexOf(h, ok[k].hexes[j])]]]

PiecePlacements(ps, w, h, allow) ==
  [i \in 1..Len(ps) |-> PiecePlacementList(ps, w, h, allow, i - 1)]

\* a variant that leaves the pieces in list order
CatalogOrder(pp) == [i \in 1..Len(pp) |-> i - 1]

\* pieces.map((p, i) => i).sort(by number of placements), stable
PieceOrder(pp) ==
  LET keyed == [i \in 1..Len(pp) |-> [key |-> Len(pp[i]), val |-> i - 1]]
      sorted == StableSortAsc(keyed)
  IN  [i \in 1..Len(sorted) |-> sorted[i].val]

\* the packed tables: one record per placement (placementsMeta with its
\* slice of placementsTargets), and each piece's start and count
PackPlacements(pp) == Flatten(pp)

PackStart(pp) == [i \in 1..Len(pp) |-> SumSeq([j \in 1..(i - 1) |-> Len(pp[j])])]

PackCount(pp) == [i \in 1..Len(pp) |-> Len(pp[i])]

\* ------------------------------------------------------- work partitioner
CeilDiv(a, b) == (a + b - 1) \div b

\* firstPieceCount; with no piece pieceOrder[0] is undefined and the loop
\* condition i * NaN < undefined is false, as for a count of 0
FirstPieceCount(order, cnt) == IF order = <<>> THEN 0 ELSE cnt[order[1] + 1]

\* a variant that rounds the share down
FloorPerWorker(count, nw) == count \div nw

PlacementsPerWorker(count, nw) == CeilDiv(count, nw)

SpawnedWorkers(count, nw) ==
  {i \in 0..(nw - 1) : i * PlacementsPerWorker(count, nw) < count}

SliceStart(i, count, nw) == i * PlacementsPerWorker(count, nw)

SliceEnd(i, count, nw) ==
  LET e == SliceStart(i, count, nw) + PlacementsPerWorker(count, nw)
  IN  IF e < count THEN e ELSE count

AssignedPlacementIndices(i, first, count, nw) ==
  [k \in 1..(SliceEnd(i, count, nw) - SliceStart(i, count, nw)) |->
     first + SliceStart(i, count, nw) + k - 1]

\* ------------------------------------------------------------------- state
Wk == 0..(MaxWorkers - 1)

VARIABLES
  \* page inputs
  pieces, pieceIdSeq, boardW, boardH, allowRotations, numWorkers,
  \* page solver state
  solverRunning, solverShouldStop, workers, topSolutions, currentSolutionIndex,
  statsStatus,
  \* locals of solveWithWorkers kept alive by the message handlers
  bestCoverage, totalSearchCount, completedWorkers, workerSearchCounts,
  placements, piecePlacementStart, piecePlacementCount, pieceOrder, neighbors,
  dataPieces,
  \* message ports: page -> worker and worker -> page, and terminate()
  inbox, outbox, terminated,
  \* worker globals
  shouldStop, searchCount, wkBestCoverage, wkTopSolutions,
  \* locals of solve() and the call stack of backtrack()
  wkPc, assigned, occupancy, depthStamp, depth, ip, seenSignatures,
  currentSolution, stack, stopped, progressSent

pageVars == <<pieces, pieceIdSeq, boardW, boardH, allowRotations, numWorkers>>

solverVars == <<solverRunning, solverShouldStop, workers, topSolutions,
                currentSolutionIndex, statsStatus>>

runVars == <<bestCoverage, totalSearchCount, completedWorkers, workerSearchCounts>>

tableVars == <<placements, piecePlacementStart, piecePlacementCount, pieceOrder,
               neighbors, dataPieces>>

portVars == <<inbox, outbox, terminated>>

wkGlobals == <<shouldStop, searchCount, wkBestCoverage, wkTopSolutions>>

wkLocals == <<wkPc, assigned, occupancy, depthStamp, depth, ip, seenSignatures,
              currentSolution, stack, stopped, progressSent>>

vars == <<pageVars, solverVars, runVars, tableVars, portVars, wkGlobals, wkLocals>>

boardSize == boardW * boardH

Init ==
  /\ pieces \in Catalogs
  /\ pieceIdSeq = Len(pieces) + 1
  /\ boardW \in 1..MaxW
  /\ boardH \in 1..MaxH
  /\ allowRotations \in BOOLEAN
  /\ numWorkers \in 1..MaxWorkers
  /\ Len(PackPlacements(PiecePlacements(pieces, boardW, boardH, allowRotations)))
       <= MaxPlacements
  /\ solverRunning = FALSE
  /\ solverShouldStop = FALSE
  /\ workers = <<>>
  /\ topSolutions = <<>>
  /\ currentSolutionIndex = 0
  /\ statsStatus = ""
  /\ bestCoverage = 0
  /\ totalSearchCount = 0
  /\ completedWorkers = 0
  /\ workerSearchCounts = <<>>
  /\ placements = <<>>
  /\ piecePlacementStart = <<>>
  /\ piecePlacementCount = <<>>
  /\ pieceOrder = <<>>
  /\ neighbors = <<>>
  /\ dataPieces = <<>>
  /\ inbox = [w \in Wk |-> <<>>]
  /\ outbox = [w \in Wk |-> <<>>]
  /\ terminated = [w \in Wk |-> FALSE]
  /\ shouldStop = [w \in Wk |-> FALSE]
  /\ searchCount = [w \in Wk |-> 0]
  /\ wkBestCoverage = [w \in Wk |-> 0]
  /\ wkTopSolutions = [w \in Wk |-> <<>>]
  /\ wkPc = [w \in Wk |-> "none"]
  /\ assigned = [w \in Wk |-> <<>>]
  /\ occupancy = [w \in Wk |-> <<>>]
  /\ depthStamp = [w \in Wk |-> <<>>]
  /\ depth = [w \in Wk |-> 0]
  /\ ip = [w \in Wk |-> 0]
  /\ seenSignatures = [w \in Wk |-> {}]
  /\ currentSolution = [w \in Wk |-> <<>>]
  /\ stack = [w \in Wk |-> <<>>]
  /\ stopped = [w \in Wk |-> FALSE]
  /\ progressSent = 0

\* ------------------------------------------------ solveWithWorkers (page)
\* One run per behaviour: the solve button is pressed once.  The whole
\* function runs without yielding: it compiles the tables, spawns the workers
\* and posts START to each.
SolveWithWorkers ==
  /\ ~solverRunning
  /\ statsStatus = ""
  /\ LET pp == PiecePlacements(pieces, boardW, boardH, allowRotations)
         order == PieceOrder(pp)
         cnt == PackCount(pp)
         start == PackStart(pp)
         fcount == FirstPieceCount(order, cnt)
         first == IF order = <<>> THEN 0 ELSE start[order[1] + 1]
         spawned == SpawnedWorkers(fcount, numWorkers)
     IN  /\ solverRunning' = TRUE
         /\ solverShouldStop' = FALSE
         /\ statsStatus' = "running (parallel)..."
         /\ topSolutions' = <<>>
         /\ currentSolutionIndex' = 0
         /\ bestCoverage' = 0
         /\ totalSearchCount' = 0
         /\ completedWorkers' = 0
         /\ workerSearchCounts' = [i \in 1..numWorkers |-> 0]
         /\ placements' = PackPlacements(pp)
         /\ piecePlacementStart' = start
         /\ piecePlacementCount' = cnt
         /\ pieceOrder' = order
         /\ neighbors' = Neighbors(boardW, boardH)
         /\ dataPieces' = [i \in 1..Len(pieces) |->
                             [id |-> pieces[i].id, size |-> Len(pieces[i].cells)]]
         /\ workers' = [i \in 1..Cardinality(spawned) |-> i - 1]
         /\ inbox' = [w \in Wk |->
                        IF w \in spawned
                        THEN << [type |-> "START", initialBestCoverage |-> bestCoverage',
                                 assignedPlacementIndices |->
                                   AssignedPlacementIndices(w, first, fcount, numWorkers)] >>
                        ELSE <<>>]
         /\ wkPc' = [w \in Wk |-> IF w \in spawned THEN "idle" ELSE "none"]
  /\ UNCHANGED <<pageVars, outbox, terminated, wkGlobals, assigned, occupancy,
                 depthStamp, depth, ip, seenSignatures, currentSolution, stack,
                 stopped, progressSent>>

\* ------------------------------------------------- worker: solve() helpers
PL(pIdx) == placements[pIdx + 1]

TargetSet(pIdx) == Range(PL(pIdx).targets)

\* applyPlacementByIndex: depth++, then every target gets the piece and the depth
ApplyOccupancy(occ, pIdx, pieceIdx) ==
  [c \in 1..Len(occ) |-> IF (c - 1) \in TargetSet(pIdx) THEN pieceIdx ELSE occ[c]]

\* a variant that stamps the depth as it was before the increment
ApplyDepthStampBeforeIncrement(stamp, d, pIdx) ==
  [c \in 1..Len(stamp) |-> IF (c - 1) \in TargetSet(pIdx) THEN d ELSE stamp[c]]

ApplyDepthStamp(stamp, d, pIdx) ==
  [c \in 1..Len(stamp) |-> IF (c - 1) \in TargetSet(pIdx) THEN d + 1 ELSE stamp[c]]

\* a variant that decrements the depth before it compares the stamps
UndoOccupancyAfterDecrement(occ, stamp, d, pIdx) ==
  [c \in 1..Len(occ) |->
     IF (c - 1) \in TargetSet(pIdx) /\ stamp[c] = d - 1 THEN -1 ELSE occ[c]]

\* undoPlacementByIndex: clears the targets still stamped with the depth, depth--
UndoOccupancy(occ, stamp, d, pIdx) ==
  [c \in 1..Len(occ) |->
     IF (c - 1) \in TargetSet(pIdx) /\ stamp[c] = d THEN -1 ELSE occ[c]]

UndoDepthStamp(stamp, d, pIdx) ==
  [c \in 1..Len(stamp) |->
     IF (c - 1) \in TargetSet(pIdx) /\ stamp[c] = d THEN 0 ELSE stamp[c]]

neighborsOccupiedCount(occ, idx) ==
  Len(SelectSeq(neighbors[idx + 1], LAMBDA n : occ[n + 1] # -1))

\* a variant that counts the pieces instead of their cells
CountRemaining(remainingPieces) == Len(remainingPieces)

sumRemainingSizes(remainingPieces) ==
  SumSeq([i \in 1..Len(remainingPieces) |-> dataPieces[remainingPieces[i] + 1].size])

\* a variant that exports every placement unrotated
ExportWithoutRotation(sol) ==
  [i \in 1..Len(sol) |->
     [piece |-> sol[i].pieceId,
      anchor |-> BoardCells(boardW, boardH)[sol[i].anchorIdx + 1],
      rot |-> 0]]

exportSolution(sol) ==
  [i \in 1..Len(sol) |->
     [piece |-> sol[i].pieceId,
      anchor |-> BoardCells(boardW, boardH)[sol[i].anchorIdx + 1],
      rot |-> sol[i].rot]]

\* cellToPiece.sort((a, b) => a[0] - b[0]) and JSON.stringify: the pairs in
\* the order a stable sort by cell index leaves them
SortPairsByCell(pairs) ==
  LET keyed == [i \in 1..Len(pairs) |-> [key |-> pairs[i][1], val |-> pairs[i]]]
      sorted == StableSortAsc(keyed)
  IN  [i \in 1..Len(sorted) |-> sorted[i].val]

WorkerSignature(sol) ==
  SortPairsByCell(Flatten(
    [i \in 1..Len(sol) |->
       [j \in 1..Len(PL(sol[i].pIdx).targets) |->
          <<PL(sol[i].pIdx).targets[j], sol[i].pieceId>>]]))

SolutionItem(pIdx) ==
  [pieceId |-> PL(pIdx).pieceId, anchorIdx |-> PL(pIdx).anchorIdx,
   rot |-> PL(pIdx).rot, pIdx |-> pIdx]

\* a variant that looks at the first target only
FitsFirstTargetOnly(occ, pIdx) == occ[PL(pIdx).targets[1] + 1] = -1

\* every target of the placement is free
Fits(occ, pIdx) == \A t \in TargetSet(pIdx) : occ[t + 1] = -1

\* bestCount starts at Infinity: no count reaches the number of placements + 1
Infinity == Len(placements) + 1

\* the counting loop of one remaining piece, left as soon as count >= bestCount
RECURSIVE CountValid(_, _, _, _, _, _)
CountValid(occ, pStart, pCount, off, count, bestCount) ==
  IF off >= pCount THEN count
  ELSE IF Fits(occ, pStart + off)
       THEN IF count + 1 >= bestCount THEN count + 1
            ELSE CountValid(occ, pStart, pCount, off + 1, count + 1, bestCount)
       ELSE CountValid(occ, pStart, pCount, off + 1, count, bestCount)

\* a variant that also takes a piece whose count equals the best so far
RECURSIVE SelectMRVLastTie(_, _, _, _, _)
SelectMRVLastTie(remainingPieces, occ, ri, bestRi, bestCount) ==
  IF ri >= Len(remainingPieces) THEN bestRi
  ELSE LET pi == remainingPieces[ri + 1]
           count == CountValid(occ, piecePlacementStart[pi + 1],
                               piecePlacementCount[pi + 1], 0, 0, bestCount)
       IN  IF count > 0 /\ count <= bestCount
           THEN SelectMRVLastTie(remainingPieces, occ, ri + 1, ri, count)
           ELSE SelectMRVLastTie(remainingPieces, occ, ri + 1, bestRi, bestCount)

\* the loop over the remaining pieces: <<bestRi, bestCount>> after index ri
RECURSIVE SelectMRV(_, _, _, _, _)
SelectMRV(remainingPieces, occ, ri, bestRi, bestCount) ==
  IF ri >= Len(remainingPieces) THEN bestRi
  ELSE LET pi == remainingPieces[ri + 1]
           count == CountValid(occ, piecePlacementStart[pi + 1],
                               piecePlacementCount[pi + 1], 0, 0, bestCount)
       IN  IF count > 0 /\ count < bestCount
           THEN SelectMRV(remainingPieces, occ, ri + 1, ri, count)
           ELSE SelectMRV(remainingPieces, occ, ri + 1, bestRi, bestCount)

PlacementAdj(occ, pIdx) ==
  SumSeq([j \in 1..Len(PL(pIdx).targets) |->
            neighborsOccupiedCount(occ, PL(pIdx).targets[j])])

\* the chosen piece's free placements, sorted by descending adjacency (stable)
ValidPlacements(occ, chosenPi) ==
  LET all == [k \in 1..piecePlacementCount[chosenPi + 1] |->
                piecePlacementStart[chosenPi + 1] + k - 1]
      free == SelectSeq(all, LAMBDA q : Fits(occ, q))
      keyed == [k \in 1..Len(free) |->
                  [key |-> -PlacementAdj(occ, free[k]), val |-> free[k]]]
      sorted == StableSortAsc(keyed)
  IN  [k \in 1..Len(sorted) |-> sorted[k].val]

\* a variant whose second slice starts one element early
RemoveAtKeepsChosen(s, ri) == SubSeq(s, 1, ri) \o SubSeq(s, ri + 1, Len(s))

RemoveAt(s, ri) == SubSeq(s, 1, ri) \o SubSeq(s, ri + 2, Len(s))

\* a variant that leaves the coverage out of the bound
BoundPruneIgnoresCoverage(coverage, remainingSum, best) == remainingSum <= best

\* the bound test of backtrack
BoundPrune(coverage, remainingSum, best) == coverage + remainingSum <= best

\* solution recording at a node: a better coverage replaces what was
\* recorded, an equal positive one is added when its signature is new
IsBetter(coverage, best) == coverage > best

IsNewTie(coverage, best, seen, sol) ==
  coverage = best /\ coverage > 0 /\ WorkerSignature(sol) \notin seen

RecordedBest(coverage, best) == IF IsBetter(coverage, best) THEN coverage ELSE best

RecordedTop(coverage, best, seen, top, sol) ==
  IF IsBetter(coverage, best) THEN <<exportSolution(sol)>>
  ELSE IF IsNewTie(coverage, best, seen, sol) THEN Append(top, exportSolution(sol))
  ELSE top

RecordedSeen(coverage, best, seen, sol) ==
  IF IsBetter(coverage, best) THEN {WorkerSignature(sol)}
  ELSE IF IsNewTie(coverage, best, seen, sol) THEN seen \cup {WorkerSignature(sol)}
  ELSE seen

\* a variant that counts one cell too many per placement
NextCoverageOffByOne(coverage, pIdx) == coverage + Len(PL(pIdx).targets) + 1

\* the coverage passed to the recursive call
NextCoverage(coverage, pIdx) == coverage + Len(PL(pIdx).targets)

Frame(remainingPieces, remainingSum, coverage) ==
  [remainingPieces |-> remainingPieces, remainingSum |-> remainingSum,
   coverage |-> coverage, bestRi |-> -1, valid |-> <<>>, vi |-> 0]

Top(w) == stack[w][Len(stack[w])]

SetTop(w, f) == [stack EXCEPT ![w] = SubSeq(@, 1, Len(@) - 1) \o <<f>>]

\* self.postMessage: a terminated worker's messages are dropped
Post(w, m) == IF terminated[w] THEN outbox ELSE [outbox EXCEPT ![w] = Append(@, m)]

\* ------------------------------------------------------ worker: messages
\* self.onmessage, START: reset the globals, then solve() up to its loop
WorkerOnStart(w) ==
  /\ wkPc[w] = "idle"
  /\ inbox[w] # <<>>
  /\ Head(inbox[w]).type = "START"
  /\ inbox' = [inbox EXCEPT ![w] = Tail(@)]
  /\ shouldStop' = [shouldStop EXCEPT ![w] = FALSE]
  /\ searchCount' = [searchCount EXCEPT ![w] = 0]
  /\ wkBestCoverage' = [wkBestCoverage EXCEPT ![w] = Head(inbox[w]).initialBestCoverage]
  /\ wkTopSolutions' = [wkTopSolutions EXCEPT ![w] = <<>>]
  /\ assigned' = [assigned EXCEPT ![w] = Head(inbox[w]).assignedPlacementIndices]
  /\ occupancy' = [occupancy EXCEPT ![w] = [c \in 1..boardSize |-> -1]]
  /\ depthStamp' = [depthStamp EXCEPT ![w] = [c \in 1..boardSize |-> 0]]
  /\ depth' = [depth EXCEPT ![w] = 0]
  /\ seenSignatures' = [seenSignatures EXCEPT ![w] = {}]
  /\ ip' = [ip EXCEPT ![w] = 0]
  /\ wkPc' = [wkPc EXCEPT ![w] = "loop"]
  /\ UNCHANGED <<pageVars, solverVars, runVars, tableVars, outbox, terminated,
                 currentSolution, stack, stopped, progressSent>>

\* self.onmessage, STOP: handled only between tasks, so never while the
\* START handler (solve) is running.  UPDATE_BEST is never posted by the page.
WorkerOnStop(w) ==
  /\ wkPc[w] \in {"done", "faulted"}
  /\ inbox[w] # <<>>
  /\ Head(inbox[w]).type = "STOP"
  /\ inbox' = [inbox EXCEPT ![w] = Tail(@)]
  /\ shouldStop' = [shouldStop EXCEPT ![w] = TRUE]
  /\ UNCHANGED <<pageVars, solverVars, runVars, tableVars, outbox, terminated,
                 searchCount, wkBestCoverage, wkTopSolutions, wkLocals>>

\* ------------------------------------------------- worker: solve() loop
\* one pass of the for loop over assignedPlacementIndices, up to the call
SolveIterate(w) ==
  /\ wkPc[w] = "loop"
  /\ ip[w] < Len(assigned[w])
  /\ ~shouldStop[w]
  /\ LET pIdx == assigned[w][ip[w] + 1]
         firstPieceIdx == pieceOrder[1]
         remainingAfterFirst == Tail(pieceOrder)
     IN  /\ occupancy' = [occupancy EXCEPT ![w] = ApplyOccupancy(@, pIdx, firstPieceIdx)]
         /\ depthStamp' = [depthStamp EXCEPT ![w] = ApplyDepthStamp(@, depth[w], pIdx)]
         /\ depth' = [depth EXCEPT ![w] = @ + 1]
         /\ currentSolution' = [currentSolution EXCEPT ![w] = <<SolutionItem(pIdx)>>]
         /\ stack' = [stack EXCEPT ![w] =
                        <<Frame(remainingAfterFirst,
                                sumRemainingSizes(remainingAfterFirst),
                                Len(PL(pIdx).targets))>>]
         /\ wkPc' = [wkPc EXCEPT ![w] = "enter"]
  /\ UNCHANGED <<pageVars, solverVars, runVars, tableVars, portVars, wkGlobals,
                 assigned, ip, seenSignatures, stopped, progressSent>>

\* the loop is over (or shouldStop breaks it): the final report
SolveComplete(w) ==
  /\ wkPc[w] = "loop"
  /\ ip[w] >= Len(assigned[w]) \/ shouldStop[w]
  /\ outbox' = Post(w, [type |-> "COMPLETE", solutions |-> wkTopSolutions[w],
                        coverage |-> wkBestCoverage[w],
                        searchCount |-> searchCount[w], workerId |-> w])
  /\ wkPc' = [wkPc EXCEPT ![w] = "done"]
  /\ UNCHANGED <<pageVars, solverVars, runVars, tableVars, inbox, terminated,
                 wkGlobals, assigned, occupancy, depthStamp, depth, ip,
                 seenSignatures, currentSolution, stack, stopped, progressSent>>

\* ------------------------------------------------- worker: backtrack()
\* entry of backtrack up to its first return or to the placement loop
BacktrackEnter(w) ==
  /\ wkPc[w] = "enter"
  /\ IF shouldStop[w]
     THEN /\ wkPc' = [wkPc EXCEPT ![w] = "return"]
          /\ stopped' = [stopped EXCEPT ![w] = TRUE]
          /\ UNCHANGED <<searchCount, wkBestCoverage, wkTopSolutions,
                         seenSignatures, stack, outbox, progressSent>>
     ELSE \E report \in BOOLEAN :
          LET f == Top(w)
              coverage == f.coverage
              best == RecordedBest(coverage, wkBestCoverage[w])
              bestRi == SelectMRV(f.remainingPieces, occupancy[w], 0, -1, Infinity)
              valid == IF bestRi = -1 THEN <<>>
                       ELSE ValidPlacements(occupancy[w], f.remainingPieces[bestRi + 1])
              leave == \/ coverage >= boardSize
                       \/ BoundPrune(coverage, f.remainingSum, best)
                       \/ f.remainingPieces = <<>>
                       \/ bestRi = -1
                       \/ valid = <<>>
          IN  /\ report => progressSent < MaxProgress
              /\ searchCount' = [searchCount EXCEPT ![w] = @ + 1]
              /\ progressSent' = IF report THEN progressSent + 1 ELSE progressSent
              /\ outbox' = IF report
                           THEN Post(w, [type |-> "PROGRESS",
                                         searchCount |-> searchCount[w] + 1,
                                         bestCoverage |-> wkBestCoverage[w],
                                         workerId |-> w])
                           ELSE outbox
              /\ wkBestCoverage' = [wkBestCoverage EXCEPT ![w] = best]
              /\ wkTopSolutions' =
                   [wkTopSolutions EXCEPT ![w] =
                      RecordedTop(coverage, wkBestCoverage[w], seenSignatures[w], @,
                                  currentSolution[w])]
              /\ seenSignatures' =
                   [seenSignatures EXCEPT ![w] =
                      RecordedSeen(coverage, wkBestCoverage[w], @, currentSolution[w])]
              /\ IF leave
                 THEN /\ wkPc' = [wkPc EXCEPT ![w] = "return"]
                      /\ stopped' = [stopped EXCEPT ![w] = coverage >= boardSize]
                      /\ UNCHANGED stack
                 ELSE /\ wkPc' = [wkPc EXCEPT ![w] = "iter"]
                      /\ stack' = SetTop(w, [f EXCEPT !.bestRi = bestRi, !.valid = valid])
                      /\ UNCHANGED stopped
  /\ UNCHANGED <<pageVars, solverVars, runVars, tableVars, inbox, terminated,
                 shouldStop, assigned, occupancy, depthStamp, depth, ip,
                 currentSolution>>

\* one pass of the loop over valid, up to the recursive call
BacktrackTry(w) ==
  /\ wkPc[w] = "iter"
  /\ LET f == Top(w)
     IN  IF f.vi >= Len(f.valid) \/ shouldStop[w]
         THEN /\ wkPc' = [wkPc EXCEPT ![w] = "return"]
              /\ stopped' = [stopped EXCEPT ![w] = f.vi < Len(f.valid)]
              /\ UNCHANGED <<occupancy, depthStamp, depth, currentSolution, stack>>
         ELSE LET pIdx == f.valid[f.vi + 1]
                  chosenPi == f.remainingPieces[f.bestRi + 1]
              IN  /\ occupancy' = [occupancy EXCEPT ![w] = ApplyOccupancy(@, pIdx, chosenPi)]
                  /\ depthStamp' = [depthStamp EXCEPT ![w] = ApplyDepthStamp(@, depth[w], pIdx)]
                  /\ depth' = [depth EXCEPT ![w] = @ + 1]
                  /\ currentSolution' = [currentSolution EXCEPT ![w] = Append(@, SolutionItem(pIdx))]
                  /\ stack' = [stack EXCEPT ![w] =
                                 Append(@, Frame(RemoveAt(f.remainingPieces, f.bestRi),
                                                 f.remainingSum - dataPieces[chosenPi + 1].size,
                                                 NextCoverage(f.coverage, pIdx)))]
                  /\ wkPc' = [wkPc EXCEPT ![w] = "enter"]
                  /\ UNCHANGED stopped
  /\ UNCHANGED <<pageVars, solverVars, runVars, tableVars, portVars, wkGlobals,
                 assigned, ip, seenSignatures, progressSent>>

\* a recursive call returns into the loop over valid: pop, undo, then either
\* return true in turn or go on with the next placement
BacktrackReturn(w) ==
  /\ wkPc[w] = "return"
  /\ Len(stack[w]) > 1
  /\ LET c == stack[w][Len(stack[w]) - 1]
         pIdx == c.valid[c.vi + 1]
     IN  /\ currentSolution' = [currentSolution EXCEPT ![w] = SubSeq(@, 1, Len(@) - 1)]
         /\ occupancy' = [occupancy EXCEPT ![w] = UndoOccupancy(@, depthStamp[w], depth[w], pIdx)]
         /\ depthStamp' = [depthStamp EXCEPT ![w] = UndoDepthStamp(@, depth[w], pIdx)]
         /\ depth' = [depth EXCEPT ![w] = @ - 1]
         /\ stack' = [stack EXCEPT ![w] =
                        SubSeq(@, 1, Len(@) - 2) \o <<[c EXCEPT !.vi = IF stopped[w] THEN @ ELSE @ + 1]>>]
         /\ wkPc' = [wkPc EXCEPT ![w] = IF stopped[w] THEN "return" ELSE "iter"]
  /\ UNCHANGED <<pageVars, solverVars, runVars, tableVars, portVars, wkGlobals,
                 assigned, ip, seenSignatures, stopped, progressSent>>

\* the top-level call returns into solve(): its result is not looked at;
\* undo the first-piece placement, depth = 0, next ip
SolveReturn(w) ==
  /\ wkPc[w] = "return"
  /\ Len(stack[w]) = 1
  /\ LET pIdx == assigned[w][ip[w] + 1]
     IN  /\ occupancy' = [occupancy EXCEPT ![w] = UndoOccupancy(@, depthStamp[w], depth[w], pIdx)]
         /\ depthStamp' = [depthStamp EXCEPT ![w] = UndoDepthStamp(@, depth[w], pIdx)]
  /\ depth' = [depth EXCEPT ![w] = 0]
  /\ stack' = [stack EXCEPT ![w] = <<>>]
  /\ currentSolution' = [currentSolution EXCEPT ![w] = <<>>]
  /\ stopped' = [stopped EXCEPT ![w] = FALSE]
  /\ ip' = [ip EXCEPT ![w] = @ + 1]
  /\ wkPc' = [wkPc EXCEPT ![w] = "loop"]
  /\ UNCHANGED <<pageVars, solverVars, runVars, tableVars, portVars, wkGlobals,
                 assigned, seenSignatures, progressSent>>

\* The worker's thread and state are gone for every worker of K.
Kill(K) ==
  /\ wkPc' = [v \in Wk |-> IF v \in K THEN "dead" ELSE wkPc[v]]
  /\ shouldStop' = [v \in Wk |-> IF v \in K THEN FALSE ELSE shouldStop[v]]
  /\ searchCount' = [v \in Wk |-> IF v \in K THEN 0 ELSE searchCount[v]]
  /\ wkBestCoverage' = [v \in Wk |-> IF v \in K THEN 0 ELSE wkBestCoverage[v]]
  /\ wkTopSolutions' = [v \in Wk |-> IF v \in K THEN <<>> ELSE wkTopSolutions[v]]
  /\ assigned' = [v \in Wk |-> IF v \in K THEN <<>> ELSE assigned[v]]
  /\ occupancy' = [v \in Wk |-> IF v \in K THEN <<>> ELSE occupancy[v]]
  /\ depthStamp' = [v \in Wk |-> IF v \in K THEN <<>> ELSE depthStamp[v]]
  /\ depth' = [v \in Wk |-> IF v \in K THEN 0 ELSE depth[v]]
  /\ ip' = [v \in Wk |-> IF v \in K THEN 0 ELSE ip[v]]
  /\ seenSignatures' = [v \in Wk |-> IF v \in K THEN {} ELSE seenSignatures[v]]
  /\ currentSolution' = [v \in Wk |-> IF v \in K THEN <<>> ELSE currentSolution[v]]
  /\ stack' = [v \in Wk |-> IF v \in K THEN <<>> ELSE stack[v]]
  /\ stopped' = [v \in Wk |-> IF v \in K THEN FALSE ELSE stopped[v]]

\* worker.terminate() reaches a worker that is between tasks: it is gone,
\* with whatever message was still queued for it
WorkerTerminated(w) ==
  /\ terminated[w]
  /\ wkPc[w] \notin {"none", "dead"}
  /\ Kill({w})
  /\ inbox' = [inbox EXCEPT ![w] = <<>>]
  /\ UNCHANGED <<pageVars, solverVars, runVars, tableVars, outbox, terminated,
                 progressSent>>

\* ------------------------------------------------------ page: aggregator
\* pieces.find(p => p.id === id): index of the first piece with the id, 0 if none
FindPiece(ps, id) ==
  IF \E i \in 1..Len(ps) : ps[i].id = id
  THEN CHOOSE i \in 1..Len(ps) : ps[i].id = id /\ \A j \in 1..(i - 1) : ps[j].id # id
  ELSE 0

\* the cells a solution's placement covers, replayed from (piece, anchor, rot);
\* targets off the board have no cell index and are left out
ReplayCells(ps, w, h, placement) ==
  LET k == FindPiece(ps, placement.piece)
  IN  IF k = 0 THEN <<>>
      ELSE LET hx == [j \in 1..Len(ps[k].cells) |->
                         addHex(placement.anchor, rotateHex(ps[k].cells[j], placement.rot))]
               on == SelectSeq(hx, LAMBDA t : BoardHas(w, h, t))
           IN  [j \in 1..Len(on) |-> CellIndexOf(h, on[j])]

getSolutionCellSignature(solution) ==
  SortPairsByCell(Flatten(
    [i \in 1..Len(solution) |->
       LET cells == ReplayCells(pieces, boardW, boardH, solution[i])
       IN  [j \in 1..Len(cells) |-> <<cells[j], solution[i].piece>>]]))

\* a variant that pushes every new solution
MergeWithoutSignatures(top, existingSignatures, newSols) == top \o newSols

\* the merge loop: push every new solution whose signature is not yet known
RECURSIVE MergeSolutions(_, _, _)
MergeSolutions(top, existingSignatures, newSols) ==
  IF newSols = <<>> THEN top
  ELSE LET signature == getSolutionCellSignature(Head(newSols))
       IN  IF signature \notin existingSignatures
           THEN MergeSolutions(Append(top, Head(newSols)),
                               existingSignatures \cup {signature}, Tail(newSols))
           ELSE MergeSolutions(top, existingSignatures, Tail(newSols))

\* variants of the decision: replace on any different coverage, merge on any
\* coverage that is not better
AcceptDifferent(coverage, best) == coverage # best

AcceptTieOrWorse(coverage, best) == coverage <= best

\* the replace / merge / discard decision of the COMPLETE handler
AcceptBetter(coverage, best) == coverage > best

AcceptTie(coverage, best) == coverage = best

\* a variant that replaces the list on an equal coverage too
ReplaceOnTie(top, best, coverage, solutions) ==
  IF coverage >= best THEN solutions ELSE top

MergedSolutions(top, best, coverage, solutions) ==
  IF AcceptBetter(coverage, best) THEN solutions
  ELSE IF AcceptTie(coverage, best)
       THEN MergeSolutions(top, {getSolutionCellSignature(top[i]) : i \in 1..Len(top)},
                           solutions)
       ELSE top

\* a variant that takes the coverage of the latest report
MergedCoverageLatest(best, coverage) == coverage

\* a variant that accumulates the reported coverage like the search counts
MergedCoverageSum(best, coverage) == best + coverage

MergedCoverage(best, coverage) == IF AcceptBetter(coverage, best) THEN coverage ELSE best

\* worker.onmessage, PROGRESS
OnProgress(w) ==
  /\ ~terminated[w]
  /\ outbox[w] # <<>>
  /\ Head(outbox[w]).type = "PROGRESS"
  /\ outbox' = [outbox EXCEPT ![w] = Tail(@)]
  /\ workerSearchCounts' = [workerSearchCounts EXCEPT ![w + 1] = Head(outbox[w]).searchCount]
  /\ totalSearchCount' = SumSeq(workerSearchCounts')
  /\ UNCHANGED <<pageVars, solverVars, bestCoverage, completedWorkers, tableVars,
                 inbox, terminated, wkGlobals, wkLocals>>

\* a variant that is satisfied by the first report
AnyWorkerDone(completed, spawned) == completed >= 1

\* completedWorkers >= workers.length
AllWorkersDone(completed, spawned) == completed >= Len(spawned)

\* worker.onmessage, COMPLETE; the last one ends the run and terminates the workers
OnComplete(w) ==
  /\ ~terminated[w]
  /\ outbox[w] # <<>>
  /\ Head(outbox[w]).type = "COMPLETE"
  /\ LET data == Head(outbox[w])
         allDone == AllWorkersDone(completedWorkers + 1, workers)
     IN  /\ workerSearchCounts' = [workerSearchCounts EXCEPT ![w + 1] = data.searchCount]
         /\ totalSearchCount' = SumSeq(workerSearchCounts')
         /\ completedWorkers' = completedWorkers + 1
         /\ bestCoverage' = MergedCoverage(bestCoverage, data.coverage)
         /\ topSolutions' = MergedSolutions(topSolutions, bestCoverage, data.coverage,
                                            data.solutions)
         /\ currentSolutionIndex' =
              IF AcceptBetter(data.coverage, bestCoverage) THEN 0 ELSE currentSolutionIndex
         /\ IF allDone
            THEN /\ statsStatus' = IF solverShouldStop THEN "stopped" ELSE "complete"
                 /\ solverRunning' = FALSE
                 /\ terminated' = [v \in Wk |-> terminated[v] \/ v \in Range(workers)]
                 /\ outbox' = [v \in Wk |-> <<>>]
                 /\ workers' = <<>>
            ELSE /\ outbox' = [outbox EXCEPT ![w] = Tail(@)]
                 /\ UNCHANGED <<statsStatus, solverRunning, terminated, workers>>
  /\ UNCHANGED <<pageVars, solverShouldStop, tableVars, inbox, wkGlobals, wkLocals>>

\* onSolve while solverRunning: post STOP to every worker, terminate every
\* worker, all in one task.  terminate() aborts the script a worker is running
\* (its START handler: solve has not returned, or has not begun and is
\* discarded with the queue); a worker that is between tasks after solve may
\* still take the queued STOP before it is gone.  The page drops whatever a
\* terminated worker has posted or posts.
Stop ==
  /\ solverRunning
  /\ solverShouldStop' = TRUE
  /\ LET running == {v \in Range(workers) : wkPc[v] \notin {"done", "faulted"}}
     IN  /\ Kill(running)
         /\ inbox' = [v \in Wk |-> IF v \in running THEN <<>>
                                   ELSE IF v \in Range(workers)
                                        THEN Append(inbox[v], [type |-> "STOP"])
                                        ELSE inbox[v]]
  /\ terminated' = [v \in Wk |-> terminated[v] \/ v \in Range(workers)]
  /\ outbox' = [v \in Wk |-> <<>>]
  /\ workers' = <<>>
  /\ statsStatus' = "stopped by user"
  /\ solverRunning' = FALSE
  /\ UNCHANGED <<pageVars, topSolutions, currentSolutionIndex, runVars, tableVars,
                 progressSent>>

\* ------------------------------------- solve() as one uninterrupted run
\* The START handler runs to completion without yielding.  RunSolve is that
\* run as a function of the assigned list: the worker state st is threaded
\* through the same steps the actions above take one at a time.
StartState(initialBestCoverage) ==
  [occupancy |-> [c \in 1..boardSize |-> -1],
   depthStamp |-> [c \in 1..boardSize |-> 0],
   depth |-> 0, searchCount |-> 0, bestCoverage |-> initialBestCoverage,
   topSolutions |-> <<>>, seenSignatures |-> {}]

Applied(st, pIdx, pieceIdx) ==
  [st EXCEPT !.occupancy = ApplyOccupancy(@, pIdx, pieceIdx),
             !.depthStamp = ApplyDepthStamp(@, st.depth, pIdx),
             !.depth = @ + 1]

Undone(st, pIdx) ==
  [st EXCEPT !.occupancy = UndoOccupancy(@, st.depthStamp, st.depth, pIdx),
             !.depthStamp = UndoDepthStamp(@, st.depth, pIdx),
             !.depth = @ - 1]

Recorded(st, sol, coverage) ==
  [st EXCEPT !.searchCount = @ + 1,
             !.bestCoverage = RecordedBest(coverage, @),
             !.topSolutions = RecordedTop(coverage, st.bestCoverage, st.seenSignatures, @, sol),
             !.seenSignatures = RecordedSeen(coverage, st.bestCoverage, @, sol)]

RECURSIVE RunBacktrack(_, _, _, _, _)
RECURSIVE RunValid(_, _, _, _, _, _, _, _)
\* backtrack(...): the state it leaves and the value it returns
RunBacktrack(st, remainingPieces, remainingSum, sol, coverage) ==
  LET st1 == Recorded(st, sol, coverage)
      bestRi == SelectMRV(remainingPieces, st1.occupancy, 0, -1, Infinity)
  IN  IF coverage >= boardSize THEN [st |-> st1, stopped |-> TRUE]
      ELSE IF \/ BoundPrune(coverage, remainingSum, st1.bestCoverage)
              \/ remainingPieces = <<>>
              \/ bestRi = -1
           THEN [st |-> st1, stopped |-> FALSE]
           ELSE RunValid(st1, remainingPieces, remainingSum, sol, coverage, bestRi,
                         ValidPlacements(st1.occupancy, remainingPieces[bestRi + 1]), 0)

\* the loop over valid from index vi on
RunValid(st, remainingPieces, remainingSum, sol, coverage, bestRi, valid, vi) ==
  IF vi >= Len(valid) THEN [st |-> st, stopped |-> FALSE]
  ELSE LET pIdx == valid[vi + 1]
           chosenPi == remainingPieces[bestRi + 1]
           r == RunBacktrack(Applied(st, pIdx, chosenPi),
                             RemoveAt(remainingPieces, bestRi),
                             remainingSum - dataPieces[chosenPi + 1].size,
                             Append(sol, SolutionItem(pIdx)),
                             NextCoverage(coverage, pIdx))
           st2 == Undone(r.st, pIdx)
       IN  IF r.stopped THEN [st |-> st2, stopped |-> TRUE]
           ELSE RunValid(st2, remainingPieces, remainingSum, sol, coverage, bestRi,
                         valid, vi + 1)

\* the loop over assignedPlacementIndices from index i on
RECURSIVE RunLoop(_, _, _)
RunLoop(st, assignedPlacementIndices, i) ==
  IF i >= Len(assignedPlacementIndices) THEN st
  ELSE LET pIdx == assignedPlacementIndices[i + 1]
           r == RunBacktrack(Applied(st, pIdx, pieceOrder[1]), Tail(pieceOrder),
                             sumRemainingSizes(Tail(pieceOrder)),
                             <<SolutionItem(pIdx)>>, Len(PL(pIdx).targets))
       IN  RunLoop([Undone(r.st, pIdx) EXCEPT !.depth = 0], assignedPlacementIndices, i + 1)

RunSolve(assignedPlacementIndices) == RunLoop(StartState(0), assignedPlacementIndices, 0)

Next ==
  \/ SolveWithWorkers
  \/ Stop
  \/ \E w \in Wk :
       \/ WorkerOnStart(w)
       \/ WorkerOnStop(w)
       \/ SolveIterate(w)
       \/ SolveComplete(w)
       \/ BacktrackEnter(w)
       \/ BacktrackTry(w)
       \/ BacktrackReturn(w)
       \/ SolveReturn(w)
       \/ WorkerTerminated(w)
       \/ OnProgress(w)
       \/ OnComplete(w)

Spec == Init /\ [][Next]_vars

\* the steps the workers and the page's message handlers take by themselves;
\* pressing the button (SolveWithWorkers, Stop) is the user's
SystemNext ==
  \E w \in Wk :
    \/ WorkerOnStart(w)
    \/ WorkerOnStop(w)
    \/ SolveIterate(w)
    \/ SolveComplete(w)
    \/ BacktrackEnter(w)
    \/ BacktrackTry(w)
    \/ BacktrackReturn(w)
    \/ SolveReturn(w)
    \/ WorkerTerminated(w)
    \/ OnProgress(w)
    \/ OnComplete(w)

\* ------------------------------------------------------- a worker faults
\* An uncaught error ends the START handler of worker w, before solve() has
\* begun or between two passes of its loop: the locals of solve() are gone,
\* the globals stay, no COMPLETE is posted.  worker.onerror on the page logs
\* the error and changes nothing.
WorkerFault(w) ==
  /\ ~terminated[w]
  /\ \/ /\ wkPc[w] = "idle"
        /\ inbox[w] # <<>>
        /\ Head(inbox[w]).type = "START"
        /\ inbox' = [inbox EXCEPT ![w] = Tail(@)]
     \/ /\ wkPc[w] = "loop"
        /\ UNCHANGED inbox
  /\ wkPc' = [wkPc EXCEPT ![w] = "faulted"]
  /\ assigned' = [assigned EXCEPT ![w] = <<>>]
  /\ occupancy' = [occupancy EXCEPT ![w] = <<>>]
  /\ depthStamp' = [depthStamp EXCEPT ![w] = <<>>]
  /\ depth' = [depth EXCEPT ![w] = 0]
  /\ ip' = [ip EXCEPT ![w] = 0]
  /\ seenSignatures' = [seenSignatures EXCEPT ![w] = {}]
  /\ UNCHANGED <<pageVars, solverVars, runVars, tableVars, outbox, terminated,
                 shouldStop, searchCount, wkBestCoverage, wkTopSolutions,
                 currentSolution, stack, stopped, progressSent>>

FaultNext == Next \/ \E w \in Wk : WorkerFault(w)

FaultSpec == Init /\ [][FaultNext]_vars

\* --------------------------------------------- page: editing the piece list
\* What the state is before the solve button is pressed.
NoRunYet ==
  /\ solverRunning = FALSE
  /\ solverShouldStop = FALSE
  /\ workers = <<>>
  /\ topSolutions = <<>>
  /\ currentSolutionIndex = 0
  /\ statsStatus = ""
  /\ bestCoverage = 0
  /\ totalSearchCount = 0
  /\ completedWorkers = 0
  /\ workerSearchCounts = <<>>
  /\ placements = <<>>
  /\ piecePlacementStart = <<>>
  /\ piecePlacementCount = <<>>
  /\ pieceOrder = <<>>
  /\ neighbors = <<>>
  /\ dataPieces = <<>>
  /\ inbox = [w \in Wk |-> <<>>]
  /\ outbox = [w \in Wk |-> <<>>]
  /\ terminated = [w \in Wk |-> FALSE]
  /\ shouldStop = [w \in Wk |-> FALSE]
  /\ searchCount = [w \in Wk |-> 0]
  /\ wkBestCoverage = [w \in Wk |-> 0]
  /\ wkTopSolutions = [w \in Wk |-> <<>>]
  /\ wkPc = [w \in Wk |-> "none"]
  /\ assigned = [w \in Wk |-> <<>>]
  /\ occupancy = [w \in Wk |-> <<>>]
  /\ depthStamp = [w \in Wk |-> <<>>]
  /\ depth = [w \in Wk |-> 0]
  /\ ip = [w \in Wk |-> 0]
  /\ seenSignatures = [w \in Wk |-> {}]
  /\ currentSolution = [w \in Wk |-> <<>>]
  /\ stack = [w \in Wk |-> <<>>]
  /\ stopped = [w \in Wk |-> FALSE]

\* everything the buttons of the piece list leave alone
notCatalog == <<boardW, boardH, allowRotations, numWorkers, solverVars, runVars,
                tableVars, portVars, wkGlobals, wkLocals>>

\* onAddPiece: the editor's selection, stored as offsets, is pushed with the
\* next id.  No handler of the piece list looks at solverRunning.
OnAddPiece(cells) ==
  /\ cells # <<>>
  /\ pieces' = Append(pieces, [id |-> pieceIdSeq, cells |-> cells])
  /\ pieceIdSeq' = pieceIdSeq + 1
  /\ UNCHANGED notCatalog

\* clonePiece(i): a copy with the next id is spliced in right after pieces[i]
ClonePiece(i) ==
  /\ i \in 0..(Len(pieces) - 1)
  /\ pieces' = SubSeq(pieces, 1, i + 1)
                 \o << [id |-> pieceIdSeq, cells |-> pieces[i + 1].cells] >>
                 \o SubSeq(pieces, i + 2, Len(pieces))
  /\ pieceIdSeq' = pieceIdSeq + 1
  /\ UNCHANGED notCatalog

\* movePieceUp(i): swap with the piece before; nothing for the first one
MovePieceUp(i) ==
  /\ i \in 1..(Len(pieces) - 1)
  /\ pieces' = [pieces EXCEPT ![i] = pieces[i + 1], ![i + 1] = pieces[i]]
  /\ UNCHANGED <<pieceIdSeq, notCatalog>>

\* movePieceDown(i): swap with the piece after; nothing for the last one
MovePieceDown(i) ==
  /\ i \in 0..(Len(pieces) - 2)
  /\ pieces' = [pieces EXCEPT ![i + 1] = pieces[i + 2], ![i + 2] = pieces[i + 1]]
  /\ UNCHANGED <<pieceIdSeq, notCatalog>>

\* a variant that restarts the id sequence but leaves the ids as they are
RemoveWithoutRenumber(i) ==
  /\ i \in 0..(Len(pieces) - 1)
  /\ pieces' = SubSeq(pieces, 1, i) \o SubSeq(pieces, i + 2, Len(pieces))
  /\ pieceIdSeq' = Len(pieces)
  /\ UNCHANGED notCatalog

\* removePiece(i): splice the piece out, renumber the rest 1, 2, ... in list
\* order and restart the id sequence after them
RemovePiece(i) ==
  /\ i \in 0..(Len(pieces) - 1)
  /\ LET rest == SubSeq(pieces, 1, i) \o SubSeq(pieces, i + 2, Len(pieces))
     IN  pieces' = [k \in 1..Len(rest) |-> [id |-> k, cells |-> rest[k].cells]]
  /\ pieceIdSeq' = Len(pieces)
  /\ UNCHANGED notCatalog

\* the page as loaded with nothing saved: an empty list, the id sequence at 1
CatalogInit ==
  /\ pieces = <<>>
  /\ pieceIdSeq = 1
  /\ boardW = 1
  /\ boardH = 1
  /\ allowRotations = FALSE
  /\ numWorkers = 1
  /\ NoRunYet
  /\ progressSent = 0

CatalogNext ==
  \/ \E cells \in ShapeLib : Len(pieces) < MaxCatalog /\ OnAddPiece(cells)
  \/ \E i \in 0..(MaxCatalog - 1) :
       \/ Len(pieces) < MaxCatalog /\ ClonePiece(i)
       \/ MovePieceUp(i)
       \/ MovePieceDown(i)
       \/ RemovePiece(i)

CatalogSpec == CatalogInit /\ [][CatalogNext]_vars

\* ------------------------------------- a run while the piece list is edited
\* The list is built from nothing, the solve button is pressed, and the
\* buttons of the list stay live during the run.
EditShapes == { << <<0, 0>> >>, << <<0, -1>>, <<0, 0>> >> }

EditInit ==
  /\ pieces = <<>>
  /\ pieceIdSeq = 1
  /\ boardW = 1
  /\ boardH \in 1..EditMaxH
  /\ allowRotations = FALSE
  /\ numWorkers \in 1..EditMaxWorkers
  /\ NoRunYet
  /\ progressSent = MaxProgress

EditNext ==
  \/ SolveWithWorkers
  \/ Stop
  \/ \E w \in Wk :
       \/ WorkerOnStart(w)
       \/ WorkerOnStop(w)
       \/ SolveIterate(w)
       \/ SolveComplete(w)
       \/ BacktrackEnter(w)
       \/ BacktrackTry(w)
       \/ BacktrackReturn(w)
       \/ SolveReturn(w)
       \/ WorkerTerminated(w)
       \/ OnComplete(w)
  \/ \E cells \in EditShapes : Len(pieces) < MaxPieces /\ OnAddPiece(cells)
  \/ \E i \in 0..(MaxPieces - 1) :
       \/ Len(pieces) < MaxPieces /\ ClonePiece(i)
       \/ MovePieceUp(i)
       \/ MovePieceDown(i)
       \/ RemovePiece(i)

EditSpec == EditInit /\ [][EditNext]_vars

\* ------------------------------- one worker searching a longer piece list
\* Up to SearchMaxPieces pieces and a single worker, so that a node of the
\* search has several remaining pieces to choose from.  The search ends within
\* the first second, so backtrack() never posts PROGRESS.
SearchCatalogs ==
  UNION { { [i \in 1..n |-> [id |-> i, cells |-> f[i]]] : f \in [1..n -> ShapeLib] }
          : n \in 1..SearchMaxPieces }

SearchInit ==
  /\ pieces \in SearchCatalogs
  /\ pieceIdSeq = Len(pieces) + 1
  /\ boardW \in 1..SearchMaxW
  /\ boardH \in 1..SearchMaxH
  /\ allowRotations \in BOOLEAN
  /\ numWorkers = 1
  /\ Len(PackPlacements(PiecePlacements(pieces, boardW, boardH, allowRotations)))
       <= SearchMaxPlacements
  /\ NoRunYet
  /\ progressSent = MaxProgress

SearchNext ==
  \/ SolveWithWorkers
  \/ \E w \in Wk :
       \/ WorkerOnStart(w)
       \/ SolveIterate(w)
       \/ SolveComplete(w)
       \/ BacktrackEnter(w)
       \/ BacktrackTry(w)
       \/ BacktrackReturn(w)
       \/ SolveReturn(w)
       \/ OnComplete(w)

SearchSpec == SearchInit /\ [][SearchNext]_vars



\* ===================================================== properties
\* ---- notions the properties are stated in
RunComplete == statsStatus = "complete"

SpawnedCount ==
  Cardinality(SpawnedWorkers(FirstPieceCount(pieceOrder, piecePlacementCount), numWorkers))

\* worker w has finished solve() and the page has handled everything it posted
Reported(w) == wkPc[w] = "done" /\ outbox[w] = <<>> /\ completedWorkers > 0

CompleteReports ==
  UNION {{outbox[w][i] : i \in {k \in 1..Len(outbox[w]) : outbox[w][k].type = "COMPLETE"}}
         : w \in Wk}

\* every solution held by a worker, in flight in a COMPLETE report, or held
\* by the aggregator
HeldSolutions ==
  Range(topSolutions)
    \cup UNION {Range(wkTopSolutions[w]) : w \in Wk}
    \cup UNION {Range(m.solutions) : m \in CompleteReports}

\* the target hexes and cells of one placement of a solution
PlacementHexes(pl) ==
  Range(TargetHexes(pieces[FindPiece(pieces, pl.piece)], pl.rot, pl.anchor))

PlacementCells(pl) == {CellIndexOf(boardH, t) : t \in PlacementHexes(pl)}

\* coverage of a solution: the sum of its placements' target-cell counts
SolutionCoverage(s) ==
  SumSeq([i \in 1..Len(s) |-> Len(pieces[FindPiece(pieces, s[i].piece)].cells)])

\* canonical covering of a solution: the set of (cell index, piece id) pairs
Covering(s) ==
  UNION {{<<c, s[i].piece>> : c \in PlacementCells(s[i])} : i \in 1..Len(s)}

SumPieceSizes == SumSeq([i \in 1..Len(pieces) |-> Len(pieces[i].cells)])

\* the legal placements of piece index pi that avoid the cells of occ
FreePlacements(pi, occ) ==
  {q \in piecePlacementStart[pi + 1] ..
           (piecePlacementStart[pi + 1] + piecePlacementCount[pi + 1] - 1) :
     TargetSet(q) \cap occ = {}}

\* the coverings of all sets of pairwise non-overlapping legal placements
\* that use each piece at most once, decided piece by piece from index pi on
RECURSIVE Packings(_, _, _)
Packings(pi, occ, pairs) ==
  IF pi >= Len(piecePlacementCount) THEN {pairs}
  ELSE Packings(pi + 1, occ, pairs)
         \cup UNION {Packings(pi + 1, occ \cup TargetSet(q),
                              pairs \cup {<<c, PL(q).pieceId>> : c \in TargetSet(q)})
                     : q \in FreePlacements(pi, occ)}

AllPackings == Packings(0, {}, {})

OptimalCoverage ==
  CHOOSE m \in {Cardinality(c) : c \in AllPackings} :
    \A c \in AllPackings : Cardinality(c) <= m

\* C1: Optimality - when a run reaches its final state with no stop issued,
\* the aggregator's final best coverage equals the largest number of cells
\* any set of non-overlapping legal placements (each piece at most once, any
\* subset of the pieces) can cover.
C1_Optimality == RunComplete => bestCoverage = OptimalCoverage

\* C2: Tie enumeration - when a run reaches its final state with no stop
\* issued, the canonical covering of every set of non-overlapping legal
\* placements whose coverage equals the final best coverage is in the final
\* solution list.
C2_TieEnumeration ==
  RunComplete =>
    \A c \in AllPackings :
      Cardinality(c) = bestCoverage =>
        c \in {Covering(topSolutions[i]) : i \in 1..Len(topSolutions)}

\* C3: Validity - in every reachable state, in every solution held by a
\* worker, carried by a COMPLETE report or held by the aggregator, any two
\* distinct placements have disjoint target cells and every target is a cell
\* of the board, with an index in [0, boardSize); the same holds of the
\* branch a worker is on.
C3_Validity ==
  /\ \A s \in HeldSolutions :
       /\ \A i \in 1..Len(s) :
            /\ FindPiece(pieces, s[i].piece) # 0
            /\ \A t \in PlacementHexes(s[i]) :
                 BoardHas(boardW, boardH, t)
                   /\ CellIndexOf(boardH, t) \in 0..(boardSize - 1)
       /\ \A i, j \in 1..Len(s) :
            i # j => PlacementCells(s[i]) \cap PlacementCells(s[j]) = {}
  /\ \A w \in Wk :
       LET sol == currentSolution[w]
       IN  /\ \A i \in 1..Len(sol) : TargetSet(sol[i].pIdx) \subseteq 0..(boardSize - 1)
           /\ \A i, j \in 1..Len(sol) :
                i # j => TargetSet(sol[i].pIdx) \cap TargetSet(sol[j].pIdx) = {}

\* a solution of two placements has reached the aggregator's list
C3_Witness ==
  \E i \in 1..Len(topSolutions) : Len(topSolutions[i]) >= 2

\* C4: each piece at most once - in every solution recorded by a worker or
\* retained by the aggregator no piece appears in two placements; on a
\* worker's branch, a piece placed at some depth is not among the remaining
\* pieces at that depth or deeper, and the first piece is never among the
\* remaining pieces.
C4_PieceOnce ==
  /\ \A s \in HeldSolutions :
       \A i, j \in 1..Len(s) : i # j => s[i].piece # s[j].piece
  /\ \A w \in Wk :
       /\ \A i, j \in 1..Len(currentSolution[w]) :
            i # j => currentSolution[w][i].pieceId # currentSolution[w][j].pieceId
       /\ \A k \in 1..Len(stack[w]) :
            /\ pieceOrder[1] \notin Range(stack[w][k].remainingPieces)
            /\ \A i \in 1..k :
                 i <= Len(currentSolution[w]) =>
                   PL(currentSolution[w][i].pIdx).pieceIdx
                     \notin Range(stack[w][k].remainingPieces)

\* a worker is two placements deep and has recorded a two-placement solution
C4_Witness ==
  \E w \in Wk :
    /\ Len(stack[w]) >= 2
    /\ \E i \in 1..Len(wkTopSolutions[w]) : Len(wkTopSolutions[w][i]) >= 2

\* C5: Coverage consistency - in every reachable state every solution in the
\* aggregator's list covers exactly the aggregator's best coverage, and
\* every solution of a COMPLETE report covers exactly the coverage the
\* report carries; a solution recorded under a lower coverage does not
\* survive.
C5_CoverageConsistency ==
  /\ \A i \in 1..Len(topSolutions) : SolutionCoverage(topSolutions[i]) = bestCoverage
  /\ \A m \in CompleteReports :
       \A i \in 1..Len(m.solutions) : SolutionCoverage(m.solutions[i]) = m.coverage

\* a worker's report with solutions of a lower coverage than the aggregator's
\* best has been handled, and none of its solutions is in the list
C5_Witness ==
  \E w \in Wk :
    /\ Reported(w)
    /\ wkTopSolutions[w] # <<>>
    /\ \A i \in 1..Len(wkTopSolutions[w]) :
         /\ SolutionCoverage(wkTopSolutions[w][i]) < bestCoverage
         /\ wkTopSolutions[w][i] \notin Range(topSolutions)
    /\ topSolutions # <<>>

\* C6: Canonical dedup - in every reachable state no two solutions of the
\* aggregator's list have the same canonical covering (the same set of
\* (cell index, piece id) pairs), also when their placements differ in
\* rotation or anchor.
C6_CanonicalDedup ==
  \A i, j \in 1..Len(topSolutions) :
    i # j => Covering(topSolutions[i]) # Covering(topSolutions[j])

\* the report of a worker has been handled whose solution covers the same
\* cells with the same pieces as a listed one, by a different rotation or anchor
C6_Witness ==
  \E w \in Wk :
    /\ Reported(w)
    /\ wkBestCoverage[w] = bestCoverage
    /\ \E i \in 1..Len(wkTopSolutions[w]) : \E j \in 1..Len(topSolutions) :
         /\ Covering(wkTopSolutions[w][i]) = Covering(topSolutions[j])
         /\ wkTopSolutions[w][i] # topSolutions[j]
         /\ wkTopSolutions[w][i] \notin Range(topSolutions)

\* the steps of a worker between START and COMPLETE
Searching(w) == wkPc[w] \in {"loop", "enter", "iter", "return"}

\* C7: Monotonic bound - no step of a run lowers the aggregator's best
\* coverage, and no step of a worker between START and COMPLETE lowers that
\* worker's local best coverage.
C7_MonotonicBound ==
  [][/\ bestCoverage' >= bestCoverage
     /\ \A w \in Wk :
          (Searching(w) /\ wkPc'[w] # "dead") => wkBestCoverage'[w] >= wkBestCoverage[w]]_vars

\* two reports have been handled, one of them with a coverage below the
\* aggregator's best
C7_Witness ==
  /\ completedWorkers >= 2
  /\ \E w \in Wk : Reported(w) /\ wkBestCoverage[w] > 0 /\ wkBestCoverage[w] < bestCoverage

\* C8: Upper-bound soundness - in every reachable state the best coverage of
\* every worker, of every COMPLETE report and of the aggregator is at most
\* the board size and at most the sum of the sizes of all pieces.
C8_UpperBound ==
  /\ bestCoverage <= boardSize /\ bestCoverage <= SumPieceSizes
  /\ \A w \in Wk : wkBestCoverage[w] <= boardSize /\ wkBestCoverage[w] <= SumPieceSizes
  /\ \A m \in CompleteReports : m.coverage <= boardSize /\ m.coverage <= SumPieceSizes

\* the pieces are larger than the board together, and the aggregator's best
\* is the whole board
C8_Witness ==
  /\ SumPieceSizes > boardSize
  /\ bestCoverage = boardSize
  /\ completedWorkers > 0

\* the run of one worker that is given the whole placement list of the first piece
WholeFirstPieceList ==
  [k \in 1..FirstPieceCount(pieceOrder, piecePlacementCount) |->
     piecePlacementStart[pieceOrder[1] + 1] + k - 1]

SingleWorkerBest == RunSolve(WholeFirstPieceList).bestCoverage

\* C9: Partition completeness - when a run reaches its final state with no
\* stop issued, its final best coverage is at most the final best coverage
\* of the run of a single worker over the whole first-piece placement list,
\* for the same board, catalog and rotation flag.
C9_PartitionCompleteness == RunComplete => bestCoverage <= SingleWorkerBest

\* a run sharded over three workers has ended, and one shard found less than
\* the single worker finds
C9_Witness ==
  /\ RunComplete
  /\ SpawnedCount >= 3
  /\ \E w \in Wk : wkPc[w] = "done" /\ wkBestCoverage[w] < SingleWorkerBest

\* C10: Stop is acknowledged by completion - once the stop command has been
\* issued during a run, the run does not come to rest before the aggregator
\* has processed a COMPLETE report of every worker spawned for the run.
C10_StopAcknowledged ==
  (solverShouldStop /\ ~ENABLED Next) => completedWorkers = SpawnedCount

\* a STOP message is queued for worker w
StopQueued(q) == \E k \in 1..Len(q) : q[k].type = "STOP"

\* C11: Cooperative cancellation mid-search - a stop issued while the search
\* of a worker is in progress leaves that worker searching with the STOP
\* message queued for it, so that it can raise its stop flag, end its search
\* within one step and report.
C11_CancelMidSearch ==
  [][\A w \in Wk :
       (Searching(w) /\ ~solverShouldStop /\ solverShouldStop')
         => /\ wkPc'[w] \in {"loop", "enter", "iter", "return", "done"}
            /\ StopQueued(inbox'[w]) \/ shouldStop'[w]]_vars

CleanBoard(w) ==
  /\ \A c \in 1..Len(occupancy[w]) : occupancy[w][c] = -1
  /\ \A c \in 1..Len(depthStamp[w]) : depthStamp[w][c] = 0
  /\ depth[w] = 0

\* C12: No occupancy leak - whenever a worker is at the top of its loop over
\* the assigned first-piece placements, and when it has posted COMPLETE,
\* every occupancy entry is -1, every depth stamp is 0 and the depth is 0.
C12_NoOccupancyLeak ==
  \A w \in Wk :
    wkPc[w] \in {"loop", "done"} =>
      /\ Len(occupancy[w]) = boardSize
      /\ Len(depthStamp[w]) = boardSize
      /\ CleanBoard(w)

\* a worker is back at the top of its loop after an iteration that went two
\* placements deep, with a further first-piece placement still to try
C12_Witness ==
  \E w \in Wk :
    /\ wkPc[w] = "loop"
    /\ ip[w] >= 1
    /\ ip[w] < Len(assigned[w])
    /\ \E i \in 1..Len(wkTopSolutions[w]) : Len(wkTopSolutions[w][i]) >= 2

\* C13: Worker failure does not block completion - when exactly one worker
\* has faulted, the COMPLETE report of every other spawned worker has been
\* processed, no stop was issued, and the workers and the page have nothing
\* left to do, the run is in its final completed state.
C13_FaultDoesNotBlock ==
  (/\ Cardinality({w \in Wk : wkPc[w] = "faulted"}) = 1
   /\ completedWorkers = SpawnedCount - 1
   /\ ~solverShouldStop
   /\ ~ENABLED SystemNext)
    => RunComplete

\* a run has been started
Started == statsStatus # ""

\* some piece of the catalog has no legal placement, or there is no piece
SomeUnplaceable ==
  pieces = <<>> \/ \E i \in 1..Len(piecePlacementCount) : piecePlacementCount[i] = 0

NothingPlaceable ==
  \A i \in 1..Len(piecePlacementCount) : piecePlacementCount[i] = 0

\* C14: Unplaceable input is a valid terminal outcome - when a run was
\* started with a catalog in which some piece has no legal placement (or with
\* no piece), no stop was issued, and the workers and the page have nothing
\* left to do, the run is in its final completed state, no final solution
\* holds an unplaceable piece, and the final best coverage is 0 when nothing
\* is placeable.
C14_UnplaceableTerminates ==
  (Started /\ SomeUnplaceable /\ ~solverShouldStop /\ ~ENABLED SystemNext)
    => /\ RunComplete
       /\ NothingPlaceable => bestCoverage = 0
       /\ \A i \in 1..Len(topSolutions) : \A j \in 1..Len(topSolutions[i]) :
            piecePlacementCount[FindPiece(pieces, topSolutions[i][j].piece)] > 0

\* some set of pairwise disjoint legal placements uses every piece
FullPackingExists == \E c \in AllPackings : Cardinality(c) = SumPieceSizes

UsesEveryPiece(s) ==
  {s[j].piece : j \in 1..Len(s)} = {pieces[k].id : k \in 1..Len(pieces)}

\* C15: Full packing is found (scenario B) - when a run reaches its final
\* state with no stop issued, for a board and catalog that admit a set of
\* pairwise disjoint legal placements using every piece, with the piece sizes
\* summing to less than the board size, the final best coverage is the sum
\* of all piece sizes and some final solution places every piece.
C15_FullPackingFound ==
  (RunComplete /\ FullPackingExists /\ SumPieceSizes < boardSize)
    => /\ bestCoverage = SumPieceSizes
       /\ \E i \in 1..Len(topSolutions) : UsesEveryPiece(topSolutions[i])

\* such a run of two pieces sharded over at least two workers has ended
C15_Witness ==
  /\ RunComplete
  /\ FullPackingExists
  /\ SumPieceSizes < boardSize
  /\ Len(pieces) = 2
  /\ SpawnedCount >= 2
  /\ \E i \in 1..Len(topSolutions) : Len(topSolutions[i]) = 2

\* the placement indices of piece index pi
PlacementsOf(pi) ==
  piecePlacementStart[pi + 1] ..
    (piecePlacementStart[pi + 1] + piecePlacementCount[pi + 1] - 1)

\* two pieces, each placeable, every placement of one overlapping every
\* placement of the other
MutuallyExclusive ==
  /\ Len(pieces) = 2
  /\ PlacementsOf(0) # {}
  /\ PlacementsOf(1) # {}
  /\ \A p \in PlacementsOf(0) : \A q \in PlacementsOf(1) :
       TargetSet(p) \cap TargetSet(q) # {}

LargerPieceSize ==
  IF Len(pieces[1].cells) >= Len(pieces[2].cells)
  THEN Len(pieces[1].cells) ELSE Len(pieces[2].cells)

\* C16: Mutually exclusive pieces (scenario C) - when a run over two
\* mutually exclusive pieces reaches its final state with no stop issued,
\* the final best coverage is the size of the larger piece and every final
\* solution holds exactly one placement.
C16_MutuallyExclusive ==
  (RunComplete /\ MutuallyExclusive)
    => /\ bestCoverage = LargerPieceSize
       /\ \A i \in 1..Len(topSolutions) : Len(topSolutions[i]) = 1

\* what the workers of the run report, as a function of the run's inputs:
\* the uninterrupted run of solve() over each worker's slice
Shards == SpawnedWorkers(FirstPieceCount(pieceOrder, piecePlacementCount), numWorkers)

ShardResult(i) ==
  RunSolve(AssignedPlacementIndices(i, piecePlacementStart[pieceOrder[1] + 1],
                                    FirstPieceCount(pieceOrder, piecePlacementCount),
                                    numWorkers))

ShardMax ==
  CHOOSE m \in {ShardResult(i).bestCoverage : i \in Shards} :
    \A i \in Shards : ShardResult(i).bestCoverage <= m

CoveringsOf(sols) == {Covering(sols[k]) : k \in 1..Len(sols)}

ShardCoverings ==
  UNION {CoveringsOf(ShardResult(i).topSolutions) :
           i \in {j \in Shards : ShardResult(j).bestCoverage = ShardMax}}

\* C17: Order-independent output - when a run reaches its final state with
\* no stop issued, the final best coverage and the final set of canonical
\* coverings are the ones fixed by the board, catalog, rotation flag and
\* worker count alone (the largest coverage any worker's slice yields, and
\* the coverings of all workers that yield it), whatever the order in which
\* the PROGRESS and COMPLETE messages were processed.
C17_OrderIndependent ==
  RunComplete =>
    /\ bestCoverage = ShardMax
    /\ CoveringsOf(topSolutions) = ShardCoverings

\* a run has ended whose first listed solution came from a worker with a
\* higher index than the worker of the second one
C17_Witness ==
  /\ RunComplete
  /\ Len(topSolutions) >= 2
  /\ \E v, w \in Wk :
       /\ v > w
       /\ topSolutions[1] \in Range(wkTopSolutions[v])
       /\ topSolutions[2] \in Range(wkTopSolutions[w])

\* worker w has reached a node that covers the whole board
FoundPerfectCover(w) == Searching(w) /\ wkBestCoverage[w] = boardSize

\* C18: Perfect-cover short-circuit - once a worker has reached a node whose
\* coverage is the full board size, no later step of its search applies a
\* placement (neither a sibling nor a further first-piece placement of its
\* slice) or raises its search-node counter, up to its COMPLETE report.
C18_PerfectCoverShortCircuit ==
  [][\A w \in Wk :
       (FoundPerfectCover(w) /\ wkPc'[w] # "dead")
         => /\ searchCount'[w] = searchCount[w]
            /\ depth'[w] <= depth[w]]_vars

\* the cells worker w's board has occupied
Occupied(w) == {c - 1 : c \in {k \in 1..Len(occupancy[w]) : occupancy[w][k] # -1}}

\* the coverage gains of all extensions of a branch by non-overlapping legal
\* placements of the remaining pieces, decided piece by piece from the k-th
\* remaining piece on (gain 0 is the branch itself)
RECURSIVE ExtensionGains(_, _, _, _)
ExtensionGains(remainingPieces, k, occ, gain) ==
  IF k > Len(remainingPieces) THEN {gain}
  ELSE ExtensionGains(remainingPieces, k + 1, occ, gain)
         \cup UNION {ExtensionGains(remainingPieces, k + 1, occ \cup TargetSet(q),
                                    gain + Cardinality(TargetSet(q)))
                     : q \in FreePlacements(remainingPieces[k], occ)}

\* worker w is entering a node at which backtrack returns by the bound test
ReturnsByBound(w) ==
  /\ wkPc[w] = "enter"
  /\ ~shouldStop[w]
  /\ Top(w).coverage < boardSize
  /\ BoundPrune(Top(w).coverage, Top(w).remainingSum,
                RecordedBest(Top(w).coverage, wkBestCoverage[w]))

\* C19: Bound pruning is sound for wins and ties - whenever backtrack
\* returns at a node by the bound test, no extension of the node's partial
\* solution by one or more non-overlapping legal placements of the remaining
\* pieces has a coverage greater than or equal to the worker's current best.
C19_BoundPruneSound ==
  \A w \in Wk :
    ReturnsByBound(w) =>
      \A g \in ExtensionGains(Top(w).remainingPieces, 1, Occupied(w), 0) :
        g > 0 => Top(w).coverage + g < RecordedBest(Top(w).coverage, wkBestCoverage[w])

\* the page is about to process a COMPLETE report of worker w whose coverage
\* is below the aggregator's best
WorseReport(w) ==
  /\ ~terminated[w]
  /\ outbox[w] # <<>>
  /\ Head(outbox[w]).type = "COMPLETE"
  /\ Head(outbox[w]).coverage < bestCoverage

\* what processing a report of worker w changes in the counters
CountersUpdated(w) ==
  /\ completedWorkers' = completedWorkers + 1
  /\ workerSearchCounts' =
       [workerSearchCounts EXCEPT ![w + 1] = Head(outbox[w]).searchCount]
  /\ totalSearchCount' = SumSeq(workerSearchCounts')

\* C20 as stated: processing a COMPLETE report with a coverage below the
\* global best changes that worker's node count, the total node count and
\* the completed-worker counter, and nothing else of the page's state.
C20_WorseChangesOnlyCounters ==
  [][\A w \in Wk :
       (WorseReport(w) /\ OnComplete(w))
         => /\ CountersUpdated(w)
            /\ UNCHANGED <<pageVars, solverVars, bestCoverage, tableVars>>]_vars

\* C20: Late-but-worse results change nothing - processing a COMPLETE report
\* with a coverage below the global best leaves the global best coverage,
\* the solution list and the current solution index unchanged; that worker's
\* node count, the total node count and the completed-worker counter change,
\* and when the report is the last outstanding one the run is ended as well
\* (status, solverRunning, workers), otherwise nothing else changes.
C20_WorseChangesNothing ==
  [][\A w \in Wk :
       (WorseReport(w) /\ OnComplete(w))
         => /\ CountersUpdated(w)
            /\ UNCHANGED <<pageVars, solverShouldStop, topSolutions,
                           currentSolutionIndex, bestCoverage, tableVars>>
            /\ IF completedWorkers + 1 >= Len(workers)
               THEN /\ ~solverRunning'
                    /\ statsStatus' \in {"complete", "stopped"}
                    /\ workers' = <<>>
               ELSE UNCHANGED <<solverRunning, statsStatus, workers>>]_vars

\* the aggregator's best has been raised by an earlier report, and a report
\* with a lower coverage is the last one outstanding
C20_Witness ==
  \E w \in Wk :
    /\ WorseReport(w)
    /\ Head(outbox[w]).coverage > 0
    /\ completedWorkers = Len(workers) - 1
    /\ topSolutions # <<>>


\* ---- C21: work partition
\* the state right after solveWithWorkers: every spawned worker holds its
\* START message, none has begun
JustStarted ==
  /\ workers # <<>>
  /\ \A w \in Range(workers) :
       /\ wkPc[w] = "idle"
       /\ inbox[w] # <<>>
       /\ Head(inbox[w]).type = "START"

StartSlice(w) == Head(inbox[w]).assignedPlacementIndices

FirstPieceIndices ==
  LET pi == pieceOrder[1]
  IN  piecePlacementStart[pi + 1]..(piecePlacementStart[pi + 1] + piecePlacementCount[pi + 1] - 1)

\* C21: with c >= 1 placements of the first piece and N workers asked for, the
\* slices handed to the spawned workers are contiguous ranges, pairwise
\* disjoint and none empty; together they hold each of the c indices exactly
\* once; there are at most N of them and each holds at most ceil(c / N) indices.
C21_WorkPartition ==
  JustStarted =>
    LET c == Cardinality(FirstPieceIndices)
        N == numWorkers
    IN  /\ c >= 1
        /\ Len(workers) <= N
        /\ \A w \in Range(workers) :
             /\ StartSlice(w) # <<>>
             /\ N * (Len(StartSlice(w)) - 1) < c
             /\ \A k \in 1..(Len(StartSlice(w)) - 1) :
                  StartSlice(w)[k + 1] = StartSlice(w)[k] + 1
        /\ \A w, v \in Range(workers) :
             w # v => Range(StartSlice(w)) \cap Range(StartSlice(v)) = {}
        /\ \A x \in FirstPieceIndices :
             Cardinality({wk \in Range(workers) \X (1..c) :
                            /\ wk[2] <= Len(StartSlice(wk[1]))
                            /\ StartSlice(wk[1])[wk[2]] = x}) = 1
        /\ \A w \in Range(workers) : Range(StartSlice(w)) \subseteq FirstPieceIndices

\* a run just started where the count does not divide evenly: fewer workers
\* than asked for, yet more than one
C21_Witness ==
  /\ JustStarted
  /\ Len(workers) >= 2
  /\ Len(workers) < numWorkers


\* ---- C22: first-piece choice
\* the piece a worker placed at the top level, and the list it recurses with
TopLevelPiece(w) == PL(currentSolution[w][1].pIdx).pieceIdx

TopLevelRemaining(w) == stack[w][1].remainingPieces

\* C22: the piece at pieceOrder[0] has no more placements than any other
\* piece, ties going to the piece earliest in list order; every spawned
\* worker places that same piece at the top level and recurses with the same
\* order of the remaining pieces.
C22_FirstPieceChoice ==
  (Started /\ pieces # <<>>) =>
    LET first == pieceOrder[1]
        cnt(i) == Cardinality(PlacementsOf(i))
    IN  /\ Range(pieceOrder) = 0..(Len(pieces) - 1)
        /\ Len(pieceOrder) = Len(pieces)
        /\ \A i \in 0..(Len(pieces) - 1) : cnt(first) <= cnt(i)
        /\ \A i \in 0..(first - 1) : cnt(i) > cnt(first)
        /\ \A w \in Wk :
             stack[w] # <<>> =>
               /\ TopLevelPiece(w) = first
               /\ TopLevelRemaining(w) = Tail(pieceOrder)
               /\ Range(assigned[w]) \subseteq PlacementsOf(first)
        /\ \A w, v \in Wk :
             (stack[w] # <<>> /\ stack[v] # <<>>) =>
               /\ TopLevelPiece(w) = TopLevelPiece(v)
               /\ TopLevelRemaining(w) = TopLevelRemaining(v)

\* two workers searching at once, the first piece being the second of the list
C22_Witness ==
  /\ Len(pieces) = 2
  /\ pieceOrder = <<1, 0>>
  /\ \E w, v \in Wk : w # v /\ stack[w] # <<>> /\ stack[v] # <<>>


\* ---- C23: MRV selection
\* the number of placements of piece pi that fit worker w's board, counted
\* in full
FullCount(w, pi) == Cardinality({q \in PlacementsOf(pi) : Fits(occupancy[w], q)})

\* the node worker w is entering passes the terminal checks: the board is not
\* full, the bound does not cut it, a piece remains
PassesTerminalChecks(w) ==
  /\ wkPc[w] = "enter"
  /\ ~shouldStop[w]
  /\ Top(w).coverage < boardSize
  /\ LET best == IF Top(w).coverage > wkBestCoverage[w]
                 THEN Top(w).coverage ELSE wkBestCoverage[w]
     IN  Top(w).coverage + Top(w).remainingSum > best
  /\ Top(w).remainingPieces # <<>>

\* C23: at every node that passes the terminal checks the piece chosen has a
\* positive number of free placements, no more than any other remaining piece
\* with a positive number, ties going to the piece earliest in the remaining
\* list (so the early exit of the counting loop never changes the choice made
\* with full counts); when every remaining piece has none, the node returns
\* without applying a placement.
C23_MRVSelection ==
  [][\A w \in Wk :
       (PassesTerminalChecks(w) /\ wkPc'[w] # "enter") =>
         LET rem == Top(w).remainingPieces
         IN  IF \A k \in 1..Len(rem) : FullCount(w, rem[k]) = 0
             THEN /\ wkPc'[w] = "return"
                  /\ ~stopped'[w]
                  /\ occupancy'[w] = occupancy[w]
                  /\ currentSolution'[w] = currentSolution[w]
                  /\ Len(stack'[w]) = Len(stack[w])
             ELSE /\ wkPc'[w] = "iter"
                  /\ LET b == stack'[w][Len(stack'[w])].bestRi + 1
                     IN  /\ b \in 1..Len(rem)
                         /\ FullCount(w, rem[b]) > 0
                         /\ \A k \in 1..Len(rem) :
                              FullCount(w, rem[k]) > 0 =>
                                FullCount(w, rem[b]) <= FullCount(w, rem[k])
                         /\ \A k \in 1..(b - 1) :
                              \/ FullCount(w, rem[k]) = 0
                              \/ FullCount(w, rem[k]) > FullCount(w, rem[b])
                         /\ occupancy'[w] = occupancy[w]]_vars

\* a node where two remaining pieces both have free placements and the one
\* chosen is the second of the list, having strictly fewer
C23_Witness ==
  \E w \in Wk :
    /\ wkPc[w] = "iter"
    /\ Top(w).vi = 0
    /\ Len(Top(w).remainingPieces) = 2
    /\ Top(w).bestRi = 1
    /\ FullCount(w, Top(w).remainingPieces[1]) > FullCount(w, Top(w).remainingPieces[2])


\* ---- C24: exact undo
\* the level of worker w's branch whose placement covers cell c, 0 if none
LevelOf(w, c) ==
  IF \E k \in 1..Len(currentSolution[w]) : c \in TargetSet(currentSolution[w][k].pIdx)
  THEN CHOOSE k \in 1..Len(currentSolution[w]) : c \in TargetSet(currentSolution[w][k].pIdx)
  ELSE 0

\* the board holds the placements of the branch and nothing else: each cell
\* of the k-th placement has that placement's piece and the stamp k
BoardIsBranch(w) ==
  /\ depth[w] = Len(currentSolution[w])
  /\ \A c \in 0..(boardSize - 1) :
       LET k == LevelOf(w, c)
       IN  /\ depthStamp[w][c + 1] = k
           /\ occupancy[w][c + 1] =
                IF k = 0 THEN -1 ELSE PL(currentSolution[w][k].pIdx).pieceIdx

\* C24: a placement applied on empty cells, followed by properly nested pairs
\* of apply and undo and then by its undo, leaves the occupancy array, the
\* depth stamps and the depth exactly as before the apply, and its undo never
\* clears a cell set at a shallower depth.  The board is at all times that of
\* the branch, the branch before an apply and after its undo being the same;
\* applying then undoing the next placement of a node gives back the board.
C24_ExactUndo ==
  \A w \in Wk :
    /\ Searching(w) => BoardIsBranch(w)
    /\ (wkPc[w] = "iter" /\ Top(w).vi < Len(Top(w).valid)) =>
         LET q == Top(w).valid[Top(w).vi + 1]
             pi == Top(w).remainingPieces[Top(w).bestRi + 1]
             occ == ApplyOccupancy(occupancy[w], q, pi)
             stamp == ApplyDepthStamp(depthStamp[w], depth[w], q)
         IN  /\ \A t \in TargetSet(q) : occupancy[w][t + 1] = -1
             /\ UndoOccupancy(occ, stamp, depth[w] + 1, q) = occupancy[w]
             /\ UndoDepthStamp(stamp, depth[w] + 1, q) = depthStamp[w]

\* back in the loop of a node two levels deep after a nested placement was
\* applied and undone, with a further placement to try
C24_Witness ==
  \E w \in Wk :
    /\ wkPc[w] = "iter"
    /\ depth[w] = 2
    /\ Top(w).vi >= 1
    /\ Top(w).vi < Len(Top(w).valid)


\* ---- C25: normal completion
CompletesInFlight(w) ==
  Cardinality({k \in 1..Len(outbox[w]) : outbox[w][k].type = "COMPLETE"})

RECURSIVE SumOver(_, _)
SumOver(S, f) ==
  IF S = {} THEN 0
  ELSE LET x == CHOOSE y \in S : TRUE IN f[x] + SumOver(S \ {x}, f)

\* a message the page has yet to handle (the guard of OnProgress and OnComplete)
Unhandled(w) == ~terminated[w] /\ outbox[w] # <<>>

\* something is left to do: a worker is in its search (each step of solve()
\* and backtrack() is guarded by the position alone), or START waits for a
\* worker, or a message waits for the page
WorkPending ==
  \/ \E w \in Wk : Searching(w)
  \/ \E w \in Wk : wkPc[w] = "idle" /\ inbox[w] # <<>> /\ Head(inbox[w]).type = "START"
  \/ \E w \in Wk : Unhandled(w)

\* a run with a worker, so far without stop (the specification has no fault)
Uninterrupted == Started /\ SpawnedCount >= 1 /\ ~solverShouldStop

\* C25: in a run with at least one spawned worker, no stop and no fault,
\* every worker sends exactly one COMPLETE; the aggregator enters the final
\* state (not running, status complete, workers released) once, only after it
\* has processed a COMPLETE from every spawned worker, and the run cannot come
\* to rest before; the total search count it reports is the sum of the
\* workers' final counts.
C25_NormalCompletion ==
  Uninterrupted =>
    /\ statsStatus \in {"running (parallel)...", "complete"}
    /\ \A w \in Wk : CompletesInFlight(w) <= 1
    /\ solverRunning =>
         /\ ~RunComplete
         /\ Len(workers) = SpawnedCount
         /\ completedWorkers < SpawnedCount
         /\ completedWorkers + SumOver(Wk, [w \in Wk |-> CompletesInFlight(w)])
              = Cardinality({w \in Wk : wkPc[w] = "done"})
         /\ WorkPending
    /\ RunComplete =>
         /\ ~solverRunning
         /\ workers = <<>>
         /\ completedWorkers = SpawnedCount
         /\ \A w \in Wk : ~Unhandled(w)
         /\ totalSearchCount =
              SumOver(Shards, [i \in Shards |-> ShardResult(i).searchCount])

\* the final state of a run of three workers
C25_Witness ==
  /\ RunComplete
  /\ completedWorkers = 3
  /\ totalSearchCount > 3


\* ---- C26: signature agreement
\* the signature the page computes for worker w's branch once exported
ReplayedSignature(w) == getSolutionCellSignature(exportSolution(currentSolution[w]))

\* C26: the signature the aggregator recomputes for an exported solution by
\* replaying (piece, anchor, rotation) equals the signature the worker took
\* from its placement table, so the aggregator judges two solutions equal
\* exactly when their worker signatures are equal.  Stated for every branch a
\* worker holds, the solutions it records being among them.
C26_SignatureAgreement ==
  \A w \in Wk :
    currentSolution[w] # <<>> =>
      /\ ReplayedSignature(w) = WorkerSignature(currentSolution[w])
      /\ \A v \in Wk :
           currentSolution[v] # <<>> =>
             ((ReplayedSignature(w) = ReplayedSignature(v))
                <=> (WorkerSignature(currentSolution[w]) = WorkerSignature(currentSolution[v])))

\* two workers hold different placements with one signature, and a worker
\* holds a branch of two placements, the first one rotated
C26_Witness ==
  \E w, v \in Wk :
    /\ currentSolution[w] # <<>>
    /\ currentSolution[v] # <<>>
    /\ currentSolution[w] # currentSolution[v]
    /\ WorkerSignature(currentSolution[w]) = WorkerSignature(currentSolution[v])
    /\ currentSolution[w][1].rot > 0
    /\ Len(PL(currentSolution[w][1].pIdx).targets) = 2


\* ---- C27: adjacency matches the placement geometry
\* the six offsets at hex distance 1 from the origin, in the offset
\* coordinates pieces are stored and placed in
UnitOffsets == {rotateHex(<<0, -1>>, k) : k \in 0..5}

\* the cells next to cell c where pieces are placed: HexGrid.add(c, d)
PlacementAdjacent(c) ==
  {CellIndexOf(boardH, n) :
     n \in {m \in {addHex(BoardCells(boardW, boardH)[c + 1], d) : d \in UnitOffsets} :
              BoardHas(boardW, boardH, m)}}

\* C27: the neighbor list compiled for a cell holds exactly the on-board
\* cells HexGrid.add(c, d) for the six offsets d at hex distance 1 from the
\* origin, each once, so that the adjacency score of a placement counts the
\* pairs of a target cell and an occupied cell next to it.
C27_AdjacencyMatchesGeometry ==
  Started =>
    \A c \in 0..(boardSize - 1) :
      /\ Range(neighbors[c + 1]) = PlacementAdjacent(c)
      /\ Len(neighbors[c + 1]) = Cardinality(PlacementAdjacent(c))


\* ---- C28: the catalog is immutable for the run
\* C28: from the start of a run until the page reaches the final or the
\* stopped state, no operation of the piece list (add, clone, move up, move
\* down, remove) changes the ids, the order or the shapes of the pieces, so
\* the pieces the aggregator replays solutions with are those sent at START.
C28_CatalogImmutable ==
  [][(solverRunning /\ workers # <<>>) => pieces' = pieces]_vars


\* ---- C29: carried frame values are exact
\* C29: at every entry to backtrack the carried remainingSum is the sum of
\* the sizes of the pieces in the remaining list, and the carried coverage is
\* the number of occupied cells, which is the sum of the target counts of the
\* placements of the current solution.
C29_CarriedValuesExact ==
  \A w \in Wk :
    wkPc[w] = "enter" =>
      /\ Top(w).remainingSum =
           SumSeq([k \in 1..Len(Top(w).remainingPieces) |->
                     Len(pieces[Top(w).remainingPieces[k] + 1].cells)])
      /\ Top(w).coverage = Cardinality(Occupied(w))
      /\ Top(w).coverage =
           SumSeq([k \in 1..Len(currentSolution[w]) |->
                     Len(PL(currentSolution[w][k].pIdx).targets)])

\* an entry two levels deep with a piece of several cells still remaining
C29_Witness ==
  \E w \in Wk :
    /\ wkPc[w] = "enter"
    /\ Len(currentSolution[w]) = 2
    /\ Top(w).coverage >= 3
    /\ Top(w).remainingSum >= 2


\* ---- C30: piece ids are unique
\* C30: after any sequence of add, clone, move up, move down and remove,
\* starting from the empty list, the ids of the pieces are pairwise distinct
\* and each is smaller than pieceIdSeq.
C30_PieceIdsUnique ==
  /\ \A i, j \in 1..Len(pieces) : i # j => pieces[i].id # pieces[j].id
  /\ \A i \in 1..Len(pieces) : pieces[i].id < pieceIdSeq

\* a full list whose ids are out of list order: pieces were moved or cloned
\* into the middle
C30_Witness ==
  /\ Len(pieces) = MaxCatalog
  /\ pieces[1].id > pieces[2].id
  /\ pieces[1].cells # pieces[2].cells

=============================================================================
